---- MODULE Spec2Model ----
(***************************************************************************)
(* Model of stormaudio/protocol.py: the AVR asyncio protocol handler.      *)
(* Python strings are sequences of one-character strings, so that split,   *)
(* startswith and strip are computed character by character as str does.   *)
(***************************************************************************)
EXTENDS Integers, Sequences, FiniteSets, TLC

(* ------------------------------ bounds --------------------------------- *)

\* Number of lines the device emits by itself in a run.
MaxEmit == 2

\* Number of commands the device echoes in a run.
MaxEcho == 1

\* The transport hands over either all bytes in flight or their first
\* FragmentLen bytes (a read that cuts a line in two).
FragmentLen == 6

(* --------------------------- str operations ---------------------------- *)

LF == "\n"

\* str.startswith(prefix)
startswith(s, prefix) ==
    /\ Len(s) >= Len(prefix)
    /\ SubSeq(s, 1, Len(prefix)) = prefix

\* str.split(sep, maxsplit); maxsplit = -1 means no limit
RECURSIVE split(_, _, _)
split(s, sep, maxsplit) ==
    IF maxsplit = 0 \/ ~(\E i \in 1..Len(s) : s[i] = sep)
    THEN <<s>>
    ELSE LET i == CHOOSE i \in 1..Len(s) :
                     s[i] = sep /\ \A j \in 1..(i-1) : s[j] # sep
         IN  <<SubSeq(s, 1, i-1)>>
                 \o split(SubSeq(s, i+1, Len(s)), sep,
                          IF maxsplit < 0 THEN maxsplit ELSE maxsplit - 1)

\* str.strip(chars)
RECURSIVE lstrip(_, _)
lstrip(s, chars) ==
    IF s # <<>> /\ Head(s) \in chars THEN lstrip(Tail(s), chars) ELSE s

RECURSIVE rstrip(_, _)
rstrip(s, chars) ==
    IF s # <<>> /\ s[Len(s)] \in chars
    THEN rstrip(SubSeq(s, 1, Len(s)-1), chars) ELSE s

strip(s, chars) == rstrip(lstrip(s, chars), chars)

\* str(number).zfill(2) for the integers the facade formats
Digit(d) == CASE d = 0 -> "0" [] d = 1 -> "1" [] d = 2 -> "2" [] d = 3 -> "3"
              [] d = 4 -> "4" [] d = 5 -> "5" [] d = 6 -> "6" [] d = 7 -> "7"
              [] d = 8 -> "8" [] d = 9 -> "9"

RECURSIVE str(_)
str(n) == IF n < 0 THEN <<"-">> \o str(0 - n)
          ELSE IF n < 10 THEN <<Digit(n)>>
          ELSE str(n \div 10) \o <<Digit(n % 10)>>

zfill(s, width) ==
    IF Len(s) >= width THEN s
    ELSE IF s # <<>> /\ Head(s) \in {"-", "+"}
         THEN <<Head(s)>> \o [i \in 1..(width - Len(s)) |-> "0"] \o Tail(s)
         ELSE [i \in 1..(width - Len(s)) |-> "0"] \o s

(* ------------------------------ schema --------------------------------- *)

\* The keys of LOOKUP in insertion order (the order "for key in LOOKUP" scans).
LOOKUP ==
    <<
       <<"s","s","p",".","p","r","o","c","s","t","a","t","e">>,
       <<"s","s","p",".","p","o","w","e","r">>,
       <<"s","s","p",".","v","e","r","s","i","o","n">>,
       <<"s","s","p",".","b","r","a","n","d">>,
       <<"s","s","p",".","m","s","g","s","t","a","t","u","s">>,
       <<"s","s","p",".","i","n","p","u","t">>,
       <<"s","s","p",".","i","n","p","u","t",".","l","i","s","t">>,
       <<"s","s","p",".","p","r","e","s","e","t">>,
       <<"s","s","p",".","s","u","r","r","o","u","n","d","m","o","d","e">>,
       <<"s","s","p",".","a","l","l","o","w","e","d","m","o","d","e">>,
       <<"s","s","p",".","s","p","e","a","k","e","r">>,
       <<"s","s","p",".","m","u","t","e">>,
       <<"s","s","p",".","d","i","m">>,
       <<"s","s","p",".","v","o","l">>,
       <<"s","s","p",".","b","a","s","s">>,
       <<"s","s","p",".","t","r","e","b">>,
       <<"s","s","p",".","b","r","i","g","h","t","n","e","s","s">>,
       <<"s","s","p",".","c","_","e","n">>,
       <<"s","s","p",".","s","_","e","n">>,
       <<"s","s","p",".","l","i","p","s","y","n","c">>,
       <<"s","s","p",".","s","u","b","_","e","n">>,
       <<"s","s","p",".","a","u","r","o","s","t","r","e","n","g","t","h">>,
       <<"s","s","p",".","a","u","r","o","p","r","e","s","e","t">>,
       <<"s","s","p",".","d","r","c">>,
       <<"s","s","p",".","c","s","p","r","e","a","d">>,
       <<"s","s","p",".","d","i","a","l","o","g","c","o","n","t","r","o","l">>,
       <<"s","s","p",".","d","i","a","l","o","g","n","o","r","m">>,
       <<"s","s","p",".","I","M","A","X","M","o","d","e">>,
       <<"s","s","p",".","s","p","h","e","r","a","u","d","i","o","e","f","f","e","c","t">>,
       <<"s","s","p",".","l","f","e","d","i","m">>,
       <<"s","s","p",".","z","o","n","e","s",".","l","i","s","t">>,
       <<"s","s","p",".","f","r","o","n","t","p","a","n","e","l",".","c","o","l","o","r">>,
       <<"s","s","p",".","f","r","o","n","t","p","a","n","e","l",".","s","t","b","y","b","r","i","g","h","t">>,
       <<"s","s","p",".","f","r","o","n","t","p","a","n","e","l",".","a","c","t","b","r","i","g","h","t">>,
       <<"s","s","p",".","f","r","o","n","t","p","a","n","e","l",".","s","t","b","y","d","e","l","a","y">>,
       <<"s","s","p",".","f","s">>,
       <<"s","s","p",".","s","t","r","e","a","m">>,
       <<"s","s","p",".","f","o","r","m","a","t">>,
       <<"s","s","p",".","t","r","i","g","1">>
    >>

Keys == {LOOKUP[i] : i \in 1..Len(LOOKUP)}

ssp_power      == LOOKUP[2]
ssp_input      == LOOKUP[6]
ssp_input_list == LOOKUP[7]
ssp_vol        == LOOKUP[14]
ssp_zones_list == LOOKUP[31]
ssp_frontpanel_color == LOOKUP[32]

\* The reserved prefix of zone-scoped messages: 'ssp.zones'
ZonePrefix == <<"s","s","p",".","z","o","n","e","s">>

\* ATTR_CORE = {'Z1POW', 'IDM'}
Z1POW == <<"Z","1","P","O","W">>
IDM   == <<"I","D","M">>
ATTR_CORE == {Z1POW, IDM}

ECH   == <<"E","C","H">>
SIP   == <<"S","I","P">>
Z1ARC == <<"Z","1","A","R","C">>
Z1MUT == <<"Z","1","M","U","T">>
Z1ALM == <<"Z","1","A","L","M">>

(* --------------------- what the device may send ------------------------ *)

\* A status report "<key>.[<value>]\n" as the device formats it.
Status(key, value) == key \o <<".", "[">> \o value \o <<"]", LF>>

\* Lines the device emits on its own.
DeviceLines ==
    { Status(ssp_power, <<"0">>),
      Status(ssp_power, <<"1">>),
      Status(ssp_input_list, <<"a">>),
      Status(ssp_zones_list, <<"a">>) }

\* The report of a power cycle, off and then on, sent as one burst.
PowerCycle == Status(ssp_power, <<"0">>) \o Status(ssp_power, <<"1">>)

(* ------------------------------- state --------------------------------- *)

VARIABLES
    table,                       \* the attributes '_'+key set by setattr
    buffer,                      \* self.buffer
    input_names,                 \* self._input_names
    input_numbers,               \* self._input_numbers
    poweron_refresh_successful,  \* self._poweron_refresh_successful
    transport,                   \* self.transport: "None" or "attached"
    update_callback,             \* TRUE iff an update_callback was supplied
    connection_lost_callback,    \* TRUE iff a connection_lost_callback was supplied
    reading,                     \* the transport's reading state
    ready,                       \* the event loop's queue of handles (call_soon)
    timers,                      \* pending call_later(delay, poweron_refresh)
    inflight,                    \* bytes sent by the device, not yet read
    emitted,                     \* number of emissions the device has made
    issued,                      \* arguments of command() in the last step
    written,                     \* data the transport accepted in the last step
    lastOp,                      \* the handler, call or event of the last step,
                                 \* its argument and the exception it raised
    wire,                        \* all bytes handed to data_received so far
    log                          \* parse, notify, pause and resume events so far

vars == <<table, buffer, input_names, input_numbers, poweron_refresh_successful,
          transport, update_callback, connection_lost_callback, reading, ready,
          timers, inflight, emitted, issued, written, lastOp, wire, log>>

\* Delays given to call_later
PowerOnDelay == 1
RefreshPeriod == 2

\* Longest queue of the event loop at which a disconnect or a read is still modelled.
MaxReady == 3

NoText == <<>>

Event(ev, data, recognized, key, oldvalue, value, newdata) ==
    [ev |-> ev, data |-> data, recognized |-> recognized, key |-> key,
     oldvalue |-> oldvalue, value |-> value, newdata |-> newdata]

Mark(ev, data) == Event(ev, data, FALSE, NoText, NoText, NoText, FALSE)

Handle(h, arg) == [h |-> h, arg |-> arg]

\* A step that ran to its end: exc is the exception that left it, "None" if none
Op(name, arg) == [op |-> name, arg |-> arg, exc |-> "None"]

OpRaising(name, arg, exc) == [op |-> name, arg |-> arg, exc |-> exc]

\* The outcome of a call: the value it returned, or the exception that left it
Returned(v) == [exc |-> "None", val |-> v]

Raising(exc) == [exc |-> exc, val |-> NoText]

(* ------------------------------ __init__ ------------------------------- *)

Init ==
    /\ table = [k \in Keys |-> NoText]
    /\ buffer = NoText
    /\ input_names = <<>>
    /\ input_numbers = <<>>
    /\ poweron_refresh_successful = FALSE
    /\ transport = "None"
    /\ update_callback \in BOOLEAN
    /\ connection_lost_callback \in BOOLEAN
    /\ reading = "resumed"
    /\ ready = <<>>
    /\ timers = [d \in {PowerOnDelay, RefreshPeriod} |-> 0]
    /\ inflight = NoText
    /\ emitted = 0
    /\ issued = <<>>
    /\ written = <<>>
    /\ lastOp = Op("__init__", NoText)
    /\ wire = NoText
    /\ log = <<>>

(* ---------------------------- object model ----------------------------- *)

getattr(obj, name) == obj[name]

hasattr(obj, name) == name \in DOMAIN obj

\* Mutant of setattr: name and value swapped
setattrSwapped(obj, name, value) ==
    [k \in (DOMAIN obj) \cup {value} |-> IF k = value THEN name ELSE obj[k]]

setattr(obj, name, value) ==
    [k \in (DOMAIN obj) \cup {name} |-> IF k = name THEN value ELSE obj[k]]

\* Mutant of call_later: a timer of the refresh period is not armed
call_laterNoRetry(t, delay) ==
    IF delay = RefreshPeriod THEN t ELSE [t EXCEPT ![delay] = @ + 1]

call_later(t, delay) == [t EXCEPT ![delay] = @ + 1]

call_soon(q, h, arg) == Append(q, Handle(h, arg))

(* --------------------------- _parse_message ---------------------------- *)

\* Mutant of Matches: a message that is the beginning of a key matches it too
MatchesEitherWay(data) ==
    {i \in 1..Len(LOOKUP) :
        startswith(data, LOOKUP[i]) \/ startswith(LOOKUP[i], data)}

\* for key in LOOKUP: if data.startswith(key): ... break
Matches(data) == {i \in 1..Len(LOOKUP) : startswith(data, LOOKUP[i])}

MatchedKey(data) ==
    LOOKUP[CHOOSE i \in Matches(data) : \A j \in Matches(data) : i <= j]

\* value = data.split('.',2)[-1].strip('[]')
ParsedValue(data) ==
    LET parts == split(data, ".", 2)
    IN  strip(parts[Len(parts)], {"[", "]"})

\* Mutant of NewData: every recognized message counts as a change
NewDataAlways(oldvalue, value) == TRUE

\* if oldvalue != value: newdata = True
NewData(oldvalue, value) == oldvalue # value

\* Mutant of PowerOnDetected: any prior value other than '1' counts as off
PowerOnDetectedLoose(key, value, oldvalue) ==
    key = ssp_power /\ value = <<"1">> /\ oldvalue # <<"1">>

\* if key == 'ssp.power' and value == '1' and oldvalue == '0'
PowerOnDetected(key, value, oldvalue) ==
    key = ssp_power /\ value = <<"1">> /\ oldvalue = <<"0">>

\* Mutant of Notify: the callback is put at the front of the loop's queue
NotifyFirst(q, newdata, data) ==
    IF newdata /\ update_callback
    THEN <<Handle("update_callback", data)>> \o q ELSE q

\* Mutant of Notify: the callback is scheduled for unchanged messages too
NotifyAlways(q, newdata, data) ==
    IF update_callback THEN call_soon(q, "update_callback", data) ELSE q

\* if newdata: if self._update_callback: call_soon(self._update_callback, data)
Notify(q, newdata, data) ==
    IF newdata /\ update_callback THEN call_soon(q, "update_callback", data) ELSE q

\* Mutant of _parse_message: the update callback is called inline, before the
\* next message of the pass is parsed
_parse_messageInline(st, data) ==
    LET zone    == startswith(data, ZonePrefix)
        matched == ~zone /\ Matches(data) # {}
        key      == IF matched THEN MatchedKey(data) ELSE NoText
        value    == IF matched THEN ParsedValue(data) ELSE NoText
        oldvalue == IF matched THEN getattr(st.table, key) ELSE NoText
        newdata  == matched /\ NewData(oldvalue, value)
        poweron  == matched /\ PowerOnDetected(key, value, oldvalue)
        parsed   == Append(st.log, Event("parse", data, zone \/ matched, key,
                                         oldvalue, value, newdata))
    IN  [ table  |-> IF matched THEN setattr(st.table, key, value) ELSE st.table,
          flag   |-> IF poweron THEN FALSE ELSE st.flag,
          timers |-> IF poweron THEN call_later(st.timers, PowerOnDelay)
                                ELSE st.timers,
          ready  |-> st.ready,
          log    |-> IF newdata /\ update_callback
                     THEN Append(parsed, Mark("notify", data)) ELSE parsed ]

\* st holds the fields _parse_message reads and writes
_parse_message(st, data) ==
    LET zone    == startswith(data, ZonePrefix)
        matched == ~zone /\ Matches(data) # {}
        key      == IF matched THEN MatchedKey(data) ELSE NoText
        value    == IF matched THEN ParsedValue(data) ELSE NoText
        oldvalue == IF matched THEN getattr(st.table, key) ELSE NoText
        newdata  == matched /\ NewData(oldvalue, value)
        poweron  == matched /\ PowerOnDetected(key, value, oldvalue)
    IN  [ table  |-> IF matched THEN setattr(st.table, key, value) ELSE st.table,
          flag   |-> IF poweron THEN FALSE ELSE st.flag,
          timers |-> IF poweron THEN call_later(st.timers, PowerOnDelay)
                                ELSE st.timers,
          ready  |-> Notify(st.ready, newdata, data),
          log    |-> Append(st.log, Event("parse", data, zone \/ matched, key,
                                          oldvalue, value, newdata)) ]

(* --------------------------- _assemble_buffer -------------------------- *)

\* for message in self.buffer.split('\n')
Messages(buf) == split(buf, LF, -1)

\* self.buffer = ""
BufferAfterPass(buf) == NoText

RECURSIVE ParseEach(_, _)
ParseEach(st, messages) ==
    IF messages = <<>> THEN st
    ELSE ParseEach(IF Head(messages) # NoText
                   THEN _parse_message(st, Head(messages)) ELSE st,
                   Tail(messages))

\* Mutant of _assemble_buffer: the pass returns without resume_reading
_assemble_bufferNoResume(st, buf) ==
    LET paused == [st EXCEPT !.log = Append(@, Mark("pause_reading", NoText))]
    IN  ParseEach(paused, Messages(buf))

_assemble_buffer(st, buf) ==
    LET paused == [st EXCEPT !.log = Append(@, Mark("pause_reading", NoText))]
        parsed == ParseEach(paused, Messages(buf))
    IN  [parsed EXCEPT !.log = Append(@, Mark("resume_reading", NoText))]

(* ------------------------- command and queries ------------------------- *)

\* Mutant of Accepted: the commands are written whatever self.transport is
AcceptedAlways(tr, commands) == commands

\* command(): try: self.transport.write(command) except: log a warning.
\* The writes of a handler that reach the transport.
Accepted(tr, commands) == IF tr = "attached" THEN commands ELSE <<>>

\* query(item) is command(item)
query(item) == item

\* refresh_all: for key in LOOKUP: self.query(key)
refresh_all == [i \in 1..Len(LOOKUP) |-> query(LOOKUP[i])]

\* The orders in which a set may be iterated
Orders(S) ==
    {o \in [1..Cardinality(S) -> S] : \A i, j \in DOMAIN o : o[i] = o[j] => i = j}

\* refresh_core: for key in ATTR_CORE: self.query(key)
refresh_core(order) == [i \in DOMAIN order |-> query(order[i])]

\* _set_boolean: self.command(key+'1') if value is True else self.command(key+'0')
_set_boolean(key, value) == key \o (IF value = TRUE THEN <<"1">> ELSE <<"0">>)

\* set_value: special_values = ['on','off','toggle','up','down']
special_values ==
    { <<"o","n">>, <<"o","f","f">>, <<"t","o","g","g","l","e">>, <<"u","p">>,
      <<"d","o","w","n">> }

\* Mutant of set_value: every value is bracketed
set_valueBracketed(command, value) ==
    command \o <<".", "[">> \o value \o <<"]", LF>>

\* set_value(command, value): the text it passes to command(), value formatted
\* as str.format does
set_value(command, value) ==
    IF value \in special_values
    THEN command \o <<".">> \o value \o <<LF>>
    ELSE command \o <<".", "[">> \o value \o <<"]", LF>>

\* volume setter: if isinstance(value, int) and 0 <= value < 100:
\*     self.set_value('ssp.vol', -1*value)
volume(value) ==
    IF 0 <= value /\ value < 100
    THEN <<set_value(ssp_vol, str((-1) * value))>>
    ELSE <<>>

\* int(value) succeeds: an optional sign and at least one digit
Digits == {"0", "1", "2", "3", "4", "5", "6", "7", "8", "9"}

IsInt(s) ==
    LET body == IF s # <<>> /\ Head(s) \in {"-", "+"} THEN Tail(s) ELSE s
    IN  body # <<>> /\ \A i \in 1..Len(body) : body[i] \in Digits

IsZero(s) == \A i \in 1..Len(s) : s[i] \in {"0", "-", "+"}

\* _get_boolean: bool(int(getattr(self, '_'+key))), False on ValueError or
\* AttributeError
_get_boolean(obj, key) ==
    IF ~hasattr(obj, key) THEN FALSE
    ELSE IF ~IsInt(getattr(obj, key)) THEN FALSE
    ELSE ~IsZero(getattr(obj, key))

\* Mutant of audio_listening_mode: the upper limit is off by one
audio_listening_modeTo17(number) ==
    IF 0 <= number /\ number <= 17
    THEN <<Z1ALM \o zfill(str(number), 2)>>
    ELSE <<>>

\* audio_listening_mode setter: if isinstance(number, int): if 0 <= number <= 16:
\*     self.command('Z1ALM'+str(number).zfill(2))
audio_listening_mode(number) ==
    IF 0 <= number /\ number <= 16
    THEN <<Z1ALM \o zfill(str(number), 2)>>
    ELSE <<>>

\* attenuation setter: if isinstance(value, numbers.Number) and
\* -100 < value <= 0: self.set_value('ssp.vol', value)
attenuation(value) ==
    IF -100 < value /\ value <= 0
    THEN <<set_value(ssp_vol, str(value))>>
    ELSE <<>>

\* volume_as_percentage setter: isinstance(value, number.Number) is evaluated
\* first; the module imports numbers, the name number is bound nowhere
volume_as_percentage(value) == Raising("NameError")

FPB   == <<"F","P","B">>
Z1DYN == <<"Z","1","D","Y","N">>
Z1INP == <<"Z","1","I","N","P">>

\* panel_brightness setter: if isinstance(number, int): if 0 <= number <= 3:
\*     self.command('FPB'+str(number))
panel_brightness(number) ==
    IF 0 <= number /\ number <= 3 THEN <<FPB \o str(number)>> ELSE <<>>

\* dolby_dynamic_range setter: if isinstance(number, int): if 0 <= number <= 2:
\*     self.command('Z1DYN'+str(number))
dolby_dynamic_range(number) ==
    IF 0 <= number /\ number <= 2 THEN <<Z1DYN \o str(number)>> ELSE <<>>

\* input_number setter: if isinstance(number, int): if 1 <= number <= 99:
\*     self.command('Z1INP'+str(number))
input_number(number) ==
    IF 1 <= number /\ number <= 99 THEN <<Z1INP \o str(number)>> ELSE <<>>

\* input_name setter: number = self._input_numbers.get(value, 0)
\*     if number > 0: self.input_number = number
input_name(numbers, value) ==
    LET number == IF value \in DOMAIN numbers THEN numbers[value] ELSE 0
    IN  IF number > 0 THEN input_number(number) ELSE <<>>

(* --------------------------- the event loop ---------------------------- *)

Core == <<table, buffer, input_names, input_numbers, poweron_refresh_successful,
          update_callback, connection_lost_callback, reading>>

\* A handler ran: what it passed to command() and what the transport took
Ran(name, arg, commands, tr) ==
    /\ issued' = commands
    /\ written' = Accepted(tr, commands)
    /\ lastOp' = Op(name, arg)

\* A call that an exception left, after it passed commands to command()
Raised(name, arg, commands, tr, exc) ==
    /\ issued' = commands
    /\ written' = Accepted(tr, commands)
    /\ lastOp' = OpRaising(name, arg, exc)

\* A step of the device or of the transport: no handler ran, nothing was written
Outside == Ran("outside", NoText, <<>>, transport)

\* The device sends a line of its own
DeviceEmits(line) ==
    /\ transport = "attached"
    /\ emitted < MaxEmit
    /\ inflight' = inflight \o line
    /\ emitted' = emitted + 1
    /\ Outside
    /\ UNCHANGED <<Core, transport, ready, timers, wire, log>>

\* Number of writes of one handler whose echo by the device is modelled
EchoWindow == 2

Terminated(text) ==
    IF text # <<>> /\ text[Len(text)] = LF THEN text ELSE text \o <<LF>>

\* The device echoes a command it was just sent
DeviceEchoes(i) ==
    /\ transport = "attached"
    /\ emitted < MaxEcho
    /\ i \in DOMAIN written
    /\ i <= EchoWindow
    /\ inflight' = inflight \o Terminated(written[i])
    /\ emitted' = emitted + 1
    /\ Outside
    /\ UNCHANGED <<Core, transport, ready, timers, wire, log>>

IsRead(h) == h.h = "data_received"

\* The socket is readable: the loop queues one read of n bytes, which will call
\* data_received with them. A readable socket has one read queued at a time.
TransportReads(n) ==
    /\ transport = "attached"
    /\ reading = "resumed"
    /\ Len(ready) < MaxReady
    /\ SelectSeq(ready, IsRead) = <<>>
    /\ n \in 1..Len(inflight)
    /\ n \in {FragmentLen, Len(inflight)}
    /\ ready' = call_soon(ready, "data_received", SubSeq(inflight, 1, n))
    /\ inflight' = SubSeq(inflight, n + 1, Len(inflight))
    /\ Outside
    /\ UNCHANGED <<Core, transport, timers, emitted, wire, log>>

(* ------------------------------ handlers ------------------------------- *)

connection_made(order) ==
    /\ transport = "None"
    /\ transport' = "attached"
    /\ Ran("connection_made", NoText,
           <<ECH \o <<"1">>>> \o refresh_core(order), "attached")
    /\ UNCHANGED <<Core, ready, timers, inflight, emitted, wire, log>>

\* The read of a closed transport is not run
OfLiveTransport(h) == ~IsRead(h)

connection_lost ==
    /\ transport = "attached"
    /\ Len(ready) < MaxReady
    /\ transport' = "None"
    /\ inflight' = NoText
    /\ ready' = LET live == SelectSeq(ready, OfLiveTransport)
                IN  IF connection_lost_callback
                    THEN call_soon(live, "connection_lost_callback", NoText)
                    ELSE live
    /\ Ran("connection_lost", NoText, <<>>, "None")
    /\ UNCHANGED <<Core, timers, emitted, wire, log>>

data_received ==
    /\ ready # <<>>
    /\ Head(ready).h = "data_received"
    /\ LET data == Head(ready).arg
           buf  == buffer \o data
           st   == _assemble_buffer(
                       [table |-> table, flag |-> poweron_refresh_successful,
                        timers |-> timers, ready |-> Tail(ready), log |-> log],
                       buf)
       IN  /\ table' = st.table
           /\ poweron_refresh_successful' = st.flag
           /\ timers' = st.timers
           /\ ready' = st.ready
           /\ log' = st.log
           /\ buffer' = BufferAfterPass(buf)
           /\ wire' = wire \o data
           /\ Ran("data_received", NoText, <<>>, transport)
    /\ reading' = "resumed"
    /\ UNCHANGED <<input_names, input_numbers, update_callback,
                   connection_lost_callback, transport, inflight, emitted>>

\* The loop runs a queued update_callback(data)
update_callback_runs ==
    /\ ready # <<>>
    /\ Head(ready).h = "update_callback"
    /\ ready' = Tail(ready)
    /\ log' = Append(log, Mark("notify", Head(ready).arg))
    /\ Ran("update_callback", NoText, <<>>, transport)
    /\ UNCHANGED <<Core, transport, timers, inflight, emitted, wire>>

\* The loop runs the queued connection_lost_callback()
connection_lost_callback_runs ==
    /\ ready # <<>>
    /\ Head(ready).h = "connection_lost_callback"
    /\ ready' = Tail(ready)
    /\ Ran("connection_lost_callback", NoText, <<>>, transport)
    /\ UNCHANGED <<Core, transport, timers, inflight, emitted, wire, log>>

\* Mutant of PoweronRefreshStops: the loop gives up after one run
PoweronRefreshStopsEarly(flag) == TRUE

\* if self._poweron_refresh_successful: return
\* else: self.refresh_all(); self._loop.call_later(2, self.poweron_refresh)
PoweronRefreshStops(flag) == flag

\* A timer set with this delay fires and runs poweron_refresh
poweron_refresh(delay) ==
    /\ timers[delay] > 0
    /\ LET fired == [timers EXCEPT ![delay] = @ - 1]
       IN  IF PoweronRefreshStops(poweron_refresh_successful)
           THEN /\ timers' = fired
                /\ Ran("poweron_refresh", NoText, <<>>, transport)
           ELSE /\ timers' = call_later(fired, RefreshPeriod)
                /\ Ran("poweron_refresh", NoText, refresh_all, transport)
    /\ UNCHANGED <<Core, transport, ready, inflight, emitted, wire, log>>

(* ------------------------------- facade -------------------------------- *)

Facade(name, arg, commands) ==
    /\ Ran(name, arg, commands, transport)
    /\ UNCHANGED <<Core, transport, ready, timers, inflight, emitted, wire, log>>

set_power(value) ==
    Facade("power", value, <<_set_boolean(Z1POW, value), _set_boolean(Z1POW, value)>>)

set_txstatus(value) == Facade("txstatus", value, <<_set_boolean(ECH, value)>>)

set_standby_control(value) ==
    Facade("standby_control", value, <<_set_boolean(SIP, value)>>)

set_arc(value) == Facade("arc", value, <<_set_boolean(Z1ARC, value)>>)

set_mute(value) == Facade("mute", value, <<_set_boolean(Z1MUT, value)>>)

\* Integers written to volume
VolumeInputs == {20, 100}

set_volume(value) == Facade("volume", value, volume(value))

\* Integers written to audio_listening_mode
ModeInputs == {-1, 5, 16, 17}

set_audio_listening_mode(number) ==
    Facade("audio_listening_mode", number, audio_listening_mode(number))

\* Numbers written to attenuation
AttenuationInputs == {-30, 5}

set_attenuation(value) == Facade("attenuation", value, attenuation(value))

\* Floats written to volume_as_percentage, as numerals: 0.5 and 2.0
PercentageInputs == { <<"0", ".", "5">>, <<"2", ".", "0">> }

set_volume_as_percentage(value) ==
    /\ Raised("volume_as_percentage", value, <<>>, transport,
              volume_as_percentage(value).exc)
    /\ UNCHANGED <<Core, transport, ready, timers, inflight, emitted, wire, log>>

\* Integers written to panel_brightness
BrightnessInputs == {2, 4}

set_panel_brightness(number) ==
    Facade("panel_brightness", number, panel_brightness(number))

\* Integers written to dolby_dynamic_range
DynamicRangeInputs == {1, 3}

set_dolby_dynamic_range(number) ==
    Facade("dolby_dynamic_range", number, dolby_dynamic_range(number))

\* Integers written to input_number
InputNumberInputs == {0, 3}

set_input_number(number) == Facade("input_number", number, input_number(number))

\* Names written to input_name
InputNameInputs == { <<"a">> }

set_input_name(value) ==
    Facade("input_name", value, input_name(input_numbers, value))

(* --------------------------- public methods ---------------------------- *)

ssp_mute == LOOKUP[12]

\* Values given to set_value: keywords, a keyword in another case, a number
SetValueInputs == { <<"o","n">>, <<"O","n">>, <<"5">> }

\* Mutant of calls_set_value: the value is also stored in the table at once
calls_set_valueStoring(command, value) ==
    /\ Ran("set_value", <<command, value>>, <<set_value(command, value)>>, transport)
    /\ table' = setattr(table, command, value)
    /\ UNCHANGED <<buffer, input_names, input_numbers, poweron_refresh_successful,
                   update_callback, connection_lost_callback, reading, transport,
                   ready, timers, inflight, emitted, wire, log>>

\* avr.set_value(command, value): one call of command() with the encoded text
calls_set_value(command, value) ==
    Facade("set_value", <<command, value>>, <<set_value(command, value)>>)

\* Items given to query
QueryInputs == { ssp_vol }

\* avr.query(item)
calls_query(item) == Facade("query", item, <<query(item)>>)

\* Commands given to command: 'Z1VOL-50', the example of its docstring
CommandInputs == { <<"Z","1","V","O","L","-","5","0">> }

\* avr.command(command)
calls_command(command) == Facade("command", command, <<command>>)

\* avr.refresh_all()
calls_refresh_all == Facade("refresh_all", NoText, refresh_all)

\* avr.refresh_core()
calls_refresh_core(order) == Facade("refresh_core", NoText, refresh_core(order))

(* --------------------------- facade: reading --------------------------- *)

\* '_'+key
Private(key) == <<"_">> \o key

\* The attributes __init__ sets besides the '_'+key of the table: _loop, log,
\* _connection_lost_callback, _update_callback, buffer, _input_names,
\* _input_numbers, _poweron_refresh_successful, transport
OwnAttributes ==
    { <<"_","l","o","o","p">>,
      <<"l","o","g">>,
      <<"_","c","o","n","n","e","c","t","i","o","n","_","l","o","s","t","_","c","a","l","l","b","a","c","k">>,
      <<"_","u","p","d","a","t","e","_","c","a","l","l","b","a","c","k">>,
      <<"b","u","f","f","e","r">>,
      <<"_","i","n","p","u","t","_","n","a","m","e","s">>,
      <<"_","i","n","p","u","t","_","n","u","m","b","e","r","s">>,
      <<"_","p","o","w","e","r","o","n","_","r","e","f","r","e","s","h","_","s","u","c","c","e","s","s","f","u","l">>,
      <<"t","r","a","n","s","p","o","r","t">> }

\* hasattr(self, name) for a full attribute name; obj is the table
HasAttribute(obj, name) ==
    \/ name \in OwnAttributes
    \/ name # NoText /\ Head(name) = "_" /\ hasattr(obj, Tail(name))

\* attenuation getter: int(getattr(self,ssp.vol)); ssp is bound nowhere, so
\* the NameError branch returns -100 whatever the table holds
attenuation_getter(obj) == Returned(-100)

\* getattr(self, name) for a full attribute name other than OwnAttributes
GetAttribute(obj, name) ==
    IF name # NoText /\ Head(name) = "_" /\ hasattr(obj, Tail(name))
    THEN Returned(getattr(obj, Tail(name)))
    ELSE Raising("AttributeError")

\* volume getter: getattr(self, 'ssp.vol'), the name without the '_' that
\* __init__ and _parse_message put in front of every key
volume_getter(obj) == GetAttribute(obj, ssp_vol)

\* volume_as_percentage getter: (100 - self.volume) / 100; self.volume raises
\* or is a str, which int - str rejects
volume_as_percentage_getter(obj) ==
    IF volume_getter(obj).exc # "None" THEN volume_getter(obj)
    ELSE Raising("TypeError")

\* return self._KEY or "placeholder": the attribute '_'+key, the placeholder
\* when it is the empty string
TextProperty(obj, key, placeholder) ==
    LET attr == GetAttribute(obj, Private(key))
    IN  IF attr.exc = "None" /\ attr.val = NoText THEN Returned(placeholder)
        ELSE attr

IDS == <<"I","D","S">>
IDR == <<"I","D","R">>
IDB == <<"I","D","B">>
IDH == <<"I","D","H">>
IDN == <<"I","D","N">>
Z1AIN == <<"Z","1","A","I","N">>
Z1AIR == <<"Z","1","A","I","R">>

\* return self._IDM or "Unknown Model"
model(obj) ==
    TextProperty(obj, IDM,
        <<"U","n","k","n","o","w","n"," ","M","o","d","e","l">>)

\* return self._IDS or "Unknown Version"
swversion(obj) ==
    TextProperty(obj, IDS,
        <<"U","n","k","n","o","w","n"," ","V","e","r","s","i","o","n">>)

\* return self._IDR or "Unknown Region"
region(obj) ==
    TextProperty(obj, IDR,
        <<"U","n","k","n","o","w","n"," ","R","e","g","i","o","n">>)

\* return self._IDB or "Unknown Build Date"
build_date(obj) ==
    TextProperty(obj, IDB,
        <<"U","n","k","n","o","w","n"," ","B","u","i","l","d"," ","D","a","t","e">>)

\* return self._IDH or "Unknown Version"
hwversion(obj) ==
    TextProperty(obj, IDH,
        <<"U","n","k","n","o","w","n"," ","V","e","r","s","i","o","n">>)

\* return self._IDN or "00:00:00:00:00:00"
macaddress(obj) ==
    TextProperty(obj, IDN,
        <<"0","0",":","0","0",":","0","0",":","0","0",":","0","0",":","0","0">>)

\* return self._Z1AIN or "Unknown"
audio_input_name(obj) ==
    TextProperty(obj, Z1AIN,
        <<"U","n","k","n","o","w","n">>)

\* return self._Z1AIR or "Unknown"
audio_input_ratename(obj) ==
    TextProperty(obj, Z1AIR,
        <<"U","n","k","n","o","w","n">>)

\* The free-text properties
TextProperties(obj) ==
    { model(obj),
      swversion(obj),
      region(obj),
      build_date(obj),
      hwversion(obj),
      macaddress(obj),
      audio_input_name(obj),
      audio_input_ratename(obj) }

\* int(s) for a string IsInt accepts
DigitValue(c) == CHOOSE d \in 0..9 : Digit(d) = c

RECURSIVE int(_)
int(s) ==
    IF Head(s) = "-" THEN 0 - int(Tail(s))
    ELSE IF Head(s) = "+" THEN int(Tail(s))
    ELSE IF Len(s) = 1 THEN DigitValue(s[1])
    ELSE 10 * int(SubSeq(s, 1, Len(s) - 1)) + DigitValue(s[Len(s)])

\* What a function returns when it returns nothing
None == "None"

\* _get_integer: if hasattr(self, keyname): value = getattr(self, keyname)
\* try: return int(value) / except ValueError: return
\* Without the attribute, value is unbound when int(value) reads it.
_get_integer(obj, key) ==
    LET keyname == Private(key)
    IN  IF ~HasAttribute(obj, keyname) THEN Raising("UnboundLocalError")
        ELSE IF IsInt(GetAttribute(obj, keyname).val)
             THEN Returned(int(GetAttribute(obj, keyname).val))
             ELSE Returned(None)

Z1DIA == <<"Z","1","D","I","A">>
Z1IRH == <<"Z","1","I","R","H">>
Z1IRV == <<"Z","1","I","R","V">>
Z1BRT == <<"Z","1","B","R","T">>
Z1SRT == <<"Z","1","S","R","T">>

\* return self._get_integer('Z1DIA')
dolby_dialog_normalization(obj) == _get_integer(obj, Z1DIA)

\* return self._get_integer('Z1IRH')
horizontal_resolution(obj) == _get_integer(obj, Z1IRH)

\* return self._get_integer('Z1IRV')
vertical_resolution(obj) == _get_integer(obj, Z1IRV)

\* return self._get_integer('Z1BRT')
audio_input_bitrate(obj) == _get_integer(obj, Z1BRT)

\* return self._get_integer('Z1SRT')
audio_input_samplerate(obj) == _get_integer(obj, Z1SRT)

\* return self._get_integer('Z1INP')
input_number_getter(obj) == _get_integer(obj, Z1INP)

\* The integer read accessors
IntegerProperties(obj) ==
    { dolby_dialog_normalization(obj),
      horizontal_resolution(obj),
      vertical_resolution(obj),
      audio_input_bitrate(obj),
      audio_input_samplerate(obj),
      input_number_getter(obj) }

(* ---------------------------- specification ---------------------------- *)

\* The connection and the event loop
Environment ==
    \/ \E order \in Orders(ATTR_CORE) : connection_made(order)
    \/ connection_lost
    \/ data_received
    \/ update_callback_runs
    \/ connection_lost_callback_runs

\* The protocol core: the device reports its state by itself
Next ==
    \/ Environment
    \/ \E line \in DeviceLines : DeviceEmits(line)
    \/ \E n \in 1..Len(inflight) : TransportReads(n)
    \/ \E delay \in {PowerOnDelay, RefreshPeriod} : poweron_refresh(delay)

Spec == Init /\ [][Next]_vars

\* The protocol core in front of a device that is switched off and on: every
\* emission is the report of a power cycle and every read takes all the bytes
\* in flight
CycleNext ==
    \/ Environment
    \/ DeviceEmits(PowerCycle)
    \/ TransportReads(Len(inflight))
    \/ \E delay \in {PowerOnDelay, RefreshPeriod} : poweron_refresh(delay)

CycleSpec == Init /\ [][CycleNext]_vars

\* The facade: the application writes the boolean properties, the listening
\* mode and the volume family, the device echoes the commands and every read
\* takes all the bytes in flight
FacadeNext ==
    \/ Environment
    \/ \E i \in 1..EchoWindow : DeviceEchoes(i)
    \/ TransportReads(Len(inflight))
    \/ \E value \in BOOLEAN : set_power(value)
    \/ \E value \in BOOLEAN : set_txstatus(value)
    \/ \E value \in BOOLEAN : set_standby_control(value)
    \/ \E value \in BOOLEAN : set_arc(value)
    \/ \E value \in BOOLEAN : set_mute(value)
    \/ \E number \in ModeInputs : set_audio_listening_mode(number)
    \/ \E value \in VolumeInputs : set_volume(value)
    \/ \E value \in AttenuationInputs : set_attenuation(value)
    \/ \E value \in PercentageInputs : set_volume_as_percentage(value)

\* The application of the facade supplies both callbacks
FacadeInit == Init /\ update_callback /\ connection_lost_callback

FacadeSpec == FacadeInit /\ [][FacadeNext]_vars

\* The public methods and the other writable properties: the application calls
\* command, query, set_value and the refreshes itself and writes
\* panel_brightness, dolby_dynamic_range, input_number and input_name; the
\* device echoes what it is sent
MethodNext ==
    \/ Environment
    \/ \E i \in 1..EchoWindow : DeviceEchoes(i)
    \/ TransportReads(Len(inflight))
    \/ \E value \in SetValueInputs : calls_set_value(ssp_mute, value)
    \/ \E item \in QueryInputs : calls_query(item)
    \/ \E command \in CommandInputs : calls_command(command)
    \/ calls_refresh_all
    \/ \E order \in Orders(ATTR_CORE) : calls_refresh_core(order)
    \/ \E number \in BrightnessInputs : set_panel_brightness(number)
    \/ \E number \in DynamicRangeInputs : set_dolby_dynamic_range(number)
    \/ \E number \in InputNumberInputs : set_input_number(number)
    \/ \E value \in InputNameInputs : set_input_name(value)

MethodSpec == FacadeInit /\ [][MethodNext]_vars

(* ------------------------ reading the event log ------------------------ *)

IsParse(e) == e.ev = "parse"

IsNotify(e) == e.ev = "notify"

Data(events) == [i \in DOMAIN events |-> events[i].data]

\* The messages handed to _parse_message so far, in order
Parsed == Data(SelectSeq(log, IsParse))

HasParsed == SelectSeq(log, IsParse) # <<>>

\* The last message parsed
LastParse == LET p == SelectSeq(log, IsParse) IN p[Len(p)]

NonEmpty(s) == s # NoText

\* The value the last parse under key stored, among the first n events
RECURSIVE StoredBy(_, _)
StoredBy(key, n) ==
    IF n = 0 THEN NoText
    ELSE IF IsParse(log[n]) /\ log[n].key = key THEN log[n].value
    ELSE StoredBy(key, n - 1)

IsPowerOnEdge(e) ==
    IsParse(e) /\ e.key = ssp_power /\ e.value = <<"1">> /\ e.oldvalue = <<"0">>

TimerCount == timers[PowerOnDelay] + timers[RefreshPeriod]

(* ------------------------------- claims -------------------------------- *)

\* C1: Framing idempotence. However the byte stream is cut into chunks, the
\* messages handed to the parser are the line-feed terminated lines of the
\* stream received so far, in order, and the trailing fragment that has no
\* line-feed yet is held in the buffer, not parsed.
C1_FramingIdempotence ==
    LET pieces == split(wire, LF, -1)
    IN  /\ Parsed = SelectSeq(SubSeq(pieces, 1, Len(pieces) - 1), NonEmpty)
        /\ buffer = pieces[Len(pieces)]

C3_FlagLifecycle ==
    /\ lastOp.op = "__init__" => ~poweron_refresh_successful
    /\ (HasParsed /\ IsPowerOnEdge(LastParse)) => ~poweron_refresh_successful
    /\ (/\ HasParsed
        /\ startswith(LastParse.data, ssp_input_list)
        /\ LastParse.value # NoText
        /\ (getattr(table, ssp_input) # NoText
               \/ getattr(table, ssp_input_list) # NoText))
          => poweron_refresh_successful

\* C4: Power-on edge. A pass of data_received schedules poweron_refresh (with
\* the power-on delay, never run inline) once for every message parsed under
\* the power key with new value '1' over stored value '0', and it clears the
\* Refresh-Successful flag then; no other message schedules anything or
\* touches the flag.
C4_PowerOnEdge ==
    [][lastOp'.op = "data_received" =>
          LET edges == {i \in (Len(log) + 1)..Len(log') : IsPowerOnEdge(log'[i])}
          IN  /\ timers'[PowerOnDelay] = timers[PowerOnDelay] + Cardinality(edges)
              /\ timers'[RefreshPeriod] = timers[RefreshPeriod]
              /\ poweron_refresh_successful' =
                    (IF edges = {} THEN poweron_refresh_successful ELSE FALSE)
              /\ issued' = <<>>
              /\ written' = <<>>]_vars

C4_Witness ==
    /\ lastOp.op = "data_received"
    /\ HasParsed
    /\ IsPowerOnEdge(LastParse)
    /\ timers[PowerOnDelay] = 1
    /\ \E i \in DOMAIN log :
          /\ IsParse(log[i]) /\ log[i].key = ssp_power
          /\ log[i].oldvalue = NoText

C6_NotifiedBeforeNextMessage ==
    \A i, j \in DOMAIN log :
        (/\ i < j
         /\ IsParse(log[i]) /\ IsParse(log[j])
         /\ log[i].newdata /\ update_callback)
            => \E k \in (i + 1)..(j - 1) : IsNotify(log[k]) /\ log[k].data = log[i].data

\* The messages that changed a value, of the first n events
Changed(n) == Data(SelectSeq(SubSeq(log, 1, n), LAMBDA e : IsParse(e) /\ e.newdata))

\* The notifications delivered, among the first n events
Notified(n) == Data(SelectSeq(SubSeq(log, 1, n), IsNotify))

\* C6 as amended: notifications are delivered in the order of the messages that
\* caused them; none is delivered between the pause and the resume of a
\* framing pass; and when a framing pass begins, every notification caused by
\* the earlier passes has been delivered.
C6_NotifiedBeforeNextPass ==
    LET notified == Notified(Len(log))
        changed  == Changed(Len(log))
    IN  /\ Len(notified) <= Len(changed)
        /\ notified = SubSeq(changed, 1, Len(notified))
        /\ \A p \in DOMAIN log :
              log[p].ev = "pause_reading" =>
                  /\ update_callback => Notified(p) = Changed(p)
                  /\ \E r \in (p + 1)..Len(log) :
                        /\ log[r].ev = "resume_reading"
                        /\ \A k \in (p + 1)..(r - 1) : IsParse(log[k])

C6_Witness ==
    \E i \in DOMAIN log :
        /\ i + 3 <= Len(log)
        /\ IsParse(log[i]) /\ log[i].newdata
        /\ IsParse(log[i + 1]) /\ log[i + 1].newdata
        /\ log[i + 2].ev = "resume_reading"
        /\ IsNotify(log[i + 3]) /\ log[i + 3].data = log[i].data
        /\ Len(ready) >= 1
        /\ Head(ready) = Handle("update_callback", log[i + 1].data)

\* The notifications still queued on the loop
Queued == LET q == SelectSeq(ready, LAMBDA h : h.h = "update_callback")
          IN  [i \in DOMAIN q |-> q[i].arg]

\* C7: Notifications. The raw messages delivered to the update callback,
\* followed by those still queued for it, are exactly the messages that changed
\* the stored value of their key, each once and in order; an unchanged, an
\* unrecognized or a zone-scoped message is never among them.
C7_NotifiedIffChanged ==
    /\ update_callback =>
          Notified(Len(log)) \o Queued = Changed(Len(log))
    /\ ~update_callback => (Notified(Len(log)) = <<>> /\ Queued = <<>>)
    /\ \A i \in DOMAIN log :
          (IsParse(log[i]) /\ log[i].newdata) =>
              /\ log[i].recognized
              /\ ~startswith(log[i].data, ZonePrefix)
              /\ log[i].key \in Keys
              /\ log[i].value # log[i].oldvalue

C7_Witness ==
    /\ update_callback
    /\ \E i, j, k \in DOMAIN log :
          /\ IsParse(log[i]) /\ log[i].newdata
          /\ IsParse(log[j]) /\ ~log[j].newdata
          /\ startswith(log[j].data, ZonePrefix)
          /\ IsNotify(log[k]) /\ log[k].data = log[i].data
    /\ Notified(Len(log)) = Changed(Len(log))
    /\ Len(Changed(Len(log))) = 1

\* C8: State-table totality. The table has an entry for every key of LOOKUP and
\* for nothing else, in every reachable state.
C8_TableTotal == DOMAIN table = Keys

C8_Witness ==
    /\ lastOp.op = "connection_lost"
    /\ getattr(table, ssp_power) = <<"1">>
    /\ getattr(table, ssp_input) # NoText
    /\ \E key \in Keys : getattr(table, key) = NoText

\* The boolean properties of the facade and the key each reads and writes
BooleanKeys == {Z1POW, Z1MUT, Z1ARC, ECH, SIP}

\* C9: Boolean round trip. Once the command that writes value to a boolean
\* property has come back from the device and been parsed, reading the
\* property returns value.
C9_BooleanRoundTrip ==
    \A key \in BooleanKeys : \A value \in BOOLEAN :
        (HasParsed /\ LastParse.data = _set_boolean(key, value))
            => _get_boolean(table, key) = value

\* The number written with two decimal digits
TwoDigits(n) == <<Digit(n \div 10), Digit(n % 10)>>

\* C10: Range validation of the listening-mode write. Writing an integer
\* outside 0..16 issues no command and changes no state; writing one inside
\* issues exactly one command, 'Z1ALM' and the number in two digits, which is
\* what the attached transport is given (with no transport attached the command
\* is dropped), and changes no state either.
C10_ListeningModeRange ==
    [][lastOp'.op = "audio_listening_mode" =>
          LET number == lastOp'.arg
          IN  /\ UNCHANGED <<Core, transport, ready, timers, inflight, wire, log>>
              /\ IF 0 <= number /\ number <= 16
                 THEN /\ issued' = <<Z1ALM \o TwoDigits(number)>>
                      /\ written' = (IF transport = "attached" THEN issued' ELSE <<>>)
                 ELSE /\ issued' = <<>>
                      /\ written' = <<>>]_vars

C10_Witness ==
    /\ lastOp.op = "audio_listening_mode"
    /\ lastOp.arg = 5
    /\ transport = "attached"
    /\ written = << Z1ALM \o <<"0", "5">> >>

\* C11: Volume derivation. Once the command written by setting volume to v
\* (0 <= v <= 100) has come back from the device and been stored, attenuation
\* reads -v and volume_as_percentage reads 100 - v hundredths.
C11_VolumeDerivation ==
    \A v \in 0..100 :
        (/\ HasParsed
         /\ LastParse.key = ssp_vol
         /\ LastParse.value = str(0 - v)
         /\ getattr(table, ssp_vol) = str(0 - v))
            => /\ attenuation_getter(table).exc = "None"
               /\ attenuation_getter(table).val = 0 - v
               /\ volume_as_percentage_getter(table).exc = "None"
               /\ volume_as_percentage_getter(table).val = 100 - v

\* C12: Unknown-field fallback. Before any message has been received, reading
\* model, and likewise each free-text property, returns a placeholder string:
\* never the empty string, never an error.
C12_UnknownFieldFallback ==
    ~HasParsed =>
        /\ model(table).exc = "None"
        /\ model(table).val # NoText
        /\ \A outcome \in TextProperties(table) :
              outcome.exc = "None" /\ outcome.val # NoText

\* The numerals written to volume_as_percentage that lie between 0 and 1
UnitInterval == { <<"0", ".", "5">> }

\* The last step was a write the facade documents as invalid: a number outside
\* the range of the property, or a name that is not in the Input Directory
InvalidWrite ==
    CASE lastOp.op = "attenuation" -> lastOp.arg < -90 \/ lastOp.arg > 0
      [] lastOp.op = "volume" -> lastOp.arg < 0 \/ lastOp.arg > 100
      [] lastOp.op = "volume_as_percentage" -> lastOp.arg \notin UnitInterval
      [] lastOp.op = "panel_brightness" -> lastOp.arg < 0 \/ lastOp.arg > 3
      [] lastOp.op = "audio_listening_mode" -> lastOp.arg < 0 \/ lastOp.arg > 16
      [] lastOp.op = "dolby_dynamic_range" -> lastOp.arg < 0 \/ lastOp.arg > 2
      [] lastOp.op = "input_number" -> lastOp.arg < 1 \/ lastOp.arg > 99
      [] lastOp.op = "input_name" -> lastOp.arg \notin DOMAIN input_numbers
      [] OTHER -> FALSE

\* C13: Invalid writes are silent no-ops. A write of an invalid value to a
\* property of the facade raises no exception, passes no command to the
\* transport and changes no state.
C13_InvalidWritesNoOp ==
    [][InvalidWrite' =>
          /\ lastOp'.exc = "None"
          /\ issued' = <<>>
          /\ written' = <<>>
          /\ UNCHANGED <<Core, transport, ready, timers, inflight, wire, log>>]_vars

\* The reserved keywords of a value-set
Keywords ==
    { <<"o","n">>, <<"o","f","f">>, <<"t","o","g","g","l","e">>, <<"u","p">>,
      <<"d","o","w","n">> }

\* C14: Value-set encoding. set_value(key, value) passes exactly one text to
\* the transport: key, a dot, value and a line-feed when value is, in that
\* letter case, one of on, off, toggle, up, down; key, a dot, value in square
\* brackets and a line-feed for every other value.
C14_ValueSetEncoding ==
    [][lastOp'.op = "set_value" =>
          LET key   == lastOp'.arg[1]
              value == lastOp'.arg[2]
          IN  /\ issued' =
                    << IF value \in Keywords
                       THEN key \o <<".">> \o value \o <<LF>>
                       ELSE key \o <<".", "[">> \o value \o <<"]", LF>> >>
              /\ written' = (IF transport = "attached" THEN issued' ELSE <<>>)
              /\ lastOp'.exc = "None"]_vars

C14_Witness ==
    /\ lastOp.op = "set_value"
    /\ lastOp.arg[2] = <<"O","n">>
    /\ transport = "attached"
    /\ written = << ssp_mute \o <<".", "[", "O", "n", "]", LF>> >>

\* text ends in a line-feed and holds no other one
OneLineFeed(text) ==
    /\ text # NoText
    /\ text[Len(text)] = LF
    /\ \A i \in 1..(Len(text) - 1) : text[i] # LF

\* C15: Query and command encoding. query(t) and command(t) give the attached
\* transport the same thing, t followed by one line-feed, and so does every
\* query of refresh_core and refresh_all and every command of a facade setter:
\* whatever the transport is given ends in exactly one line-feed.
C15_QueryCommandEncoding ==
    /\ (lastOp.op \in {"query", "command"} /\ transport = "attached")
          => written = << lastOp.arg \o <<LF>> >>
    /\ \A i \in DOMAIN written : OneLineFeed(written[i])

\* The calls that send: command, query, set_value and the two refreshes
Senders == {"command", "query", "set_value", "refresh_all", "refresh_core"}

\* C16: Send with no transport. With no transport attached, before
\* connection_made or after connection_lost, a call of command, query,
\* set_value, refresh_core or refresh_all ends without an exception, writes
\* nothing, and leaves the state table, the Refresh-Successful flag and the
\* buffer as they were; a transport is attached by connection_made only.
C16_SendWithNoTransport ==
    [][/\ (transport = "None" /\ lastOp'.op \in Senders) =>
              /\ lastOp'.exc = "None"
              /\ issued' # <<>>
              /\ written' = <<>>
              /\ transport' = "None"
              /\ UNCHANGED <<table, poweron_refresh_successful, buffer>>
       /\ (transport = "None" /\ transport' # "None") =>
              lastOp'.op = "connection_made"]_vars

C16_Witness ==
    /\ lastOp.op = "refresh_all"
    /\ transport = "None"
    /\ wire # NoText
    /\ issued = refresh_all
    /\ written = <<>>

\* A message the parser cannot decode: zone-scoped, or beginning with no key
Undecodable(data) ==
    \/ startswith(data, ZonePrefix)
    \/ \A key \in Keys : ~startswith(data, key)

Decodable(data) == ~Undecodable(data)

\* C17: Undecodable messages are harmless. A pass of data_received parses
\* every message of its batch, and leaves the state table, the Input
\* Directory, the Refresh-Successful flag, the timers and the queue of
\* notifications exactly as a pass over the batch without its zone-scoped and
\* unmatched messages would; it raises nothing.
C17_UndecodableHarmless ==
    [][lastOp'.op = "data_received" =>
          LET batch  == SelectSeq(Messages(buffer \o Head(ready).arg), NonEmpty)
              parsed == Data(SelectSeq(SubSeq(log', Len(log) + 1, Len(log')),
                                       IsParse))
              before == [table |-> table, flag |-> poweron_refresh_successful,
                         timers |-> timers, ready |-> Tail(ready), log |-> log]
              after  == ParseEach(before, SelectSeq(batch, Decodable))
          IN  /\ parsed = batch
              /\ table' = after.table
              /\ poweron_refresh_successful' = after.flag
              /\ timers' = after.timers
              /\ ready' = after.ready
              /\ UNCHANGED <<input_names, input_numbers>>
              /\ lastOp'.exc = "None"
              /\ \A i \in (Len(log) + 1)..Len(log') :
                    (IsParse(log'[i]) /\ Undecodable(log'[i].data)) =>
                        ~log'[i].newdata /\ log'[i].key = NoText]_vars

C17_Witness ==
    /\ lastOp.op = "data_received"
    /\ \E i \in DOMAIN log :
          /\ i + 2 <= Len(log)
          /\ IsParse(log[i]) /\ startswith(log[i].data, ZonePrefix)
          /\ IsParse(log[i + 1]) /\ log[i + 1].newdata
          /\ log[i + 2].ev = "resume_reading"
          /\ i + 2 = Len(log)
          /\ getattr(table, ssp_zones_list) = NoText
          /\ getattr(table, log[i + 1].key) = log[i + 1].value

\* C18: Timer cancellation on teardown. connection_lost cancels the timer of
\* the Power-On Refresh Loop: it leaves no run of poweron_refresh scheduled,
\* and no run of poweron_refresh happens while no transport is attached.
C18_TimerCancelledOnTeardown ==
    /\ lastOp.op = "connection_lost" => TimerCount = 0
    /\ lastOp.op = "poweron_refresh" => transport = "attached"

\* C19: Numeric read fallback. Where the value under a read accessor was never
\* observed, is empty or is no number, a boolean accessor returns false, an
\* integer accessor returns none and attenuation returns -100; no read
\* accessor ends in an exception.
C19_NumericReadFallback ==
    /\ \A key \in BooleanKeys :
          (~hasattr(table, key) \/ ~IsInt(getattr(table, key)))
              => _get_boolean(table, key) = FALSE
    /\ ~IsInt(getattr(table, ssp_vol)) =>
          (attenuation_getter(table).exc = "None"
              /\ attenuation_getter(table).val = -100)
    /\ \A outcome \in IntegerProperties(table) :
          outcome.exc = "None" /\ outcome.val = None

C21_AtMostOneRefreshLoop == TimerCount <= 1

\* data is the status line of key with its line-feed taken off: 'key.[V]'
IsStatusOf(data, key) ==
    /\ startswith(data, key \o <<".", "[">>)
    /\ data[Len(data)] = "]"

\* The payload V of the status line 'key.[V]'
Payload(data, key) == SubSeq(data, Len(key) + 3, Len(data) - 1)

\* C22: Value extraction. Parsing the status line 'K.[V]' of a schema key K
\* stores exactly V under K, also for a key that contains a further dot.
C22_ValueExtraction ==
    \A i \in DOMAIN log :
        IsParse(log[i]) =>
            \A key \in Keys :
                IsStatusOf(log[i].data, key) =>
                    /\ log[i].key = key
                    /\ log[i].value = Payload(log[i].data, key)

\* C23: Unambiguous key matching. No key of LOOKUP is the beginning of another
\* key, none begins with the reserved zone prefix, and every status line
\* parsed for a key K is classified under K and changes the table entry of no
\* other key.
C23_UnambiguousKeyMatching ==
    /\ \A i, j \in 1..Len(LOOKUP) :
          i # j => ~startswith(LOOKUP[j], LOOKUP[i])
    /\ \A key \in Keys : ~startswith(key, ZonePrefix)
    /\ \A i \in DOMAIN log :
          IsParse(log[i]) =>
              \A key \in Keys :
                  IsStatusOf(log[i].data, key) =>
                      /\ log[i].recognized
                      /\ Matches(log[i].data) = {j \in 1..Len(LOOKUP) : LOOKUP[j] = key}
                      /\ log[i].key = key

\* All the messages that changed a value so far
AllChanged == Changed(Len(log))

\* The event logged last
LastEvent == log[Len(log)]

\* Handles of the update callback for these messages, in their order
Callbacks(messages) ==
    [i \in DOMAIN messages |-> Handle("update_callback", messages[i])]

\* C24: Deferred observer. A pass of data_received calls the update callback
\* for none of its messages: between its pause and its resume only messages
\* are parsed, and it leaves behind the loop's queue, one callback appended per
\* changed message in the order the messages were parsed. A callback runs in a
\* step of the loop of its own, after a pass has returned or after an earlier
\* callback, it is the oldest one queued, and it changes nothing of the core.
C24_DeferredObserver ==
    [][ /\ (Len(log') > Len(log) /\ LastEvent'.ev = "resume_reading") =>
              LET added  == SubSeq(log', Len(log) + 1, Len(log'))
                  caused == SubSeq(AllChanged', Len(AllChanged) + 1, Len(AllChanged'))
              IN  /\ lastOp'.op = "data_received"
                  /\ added[1].ev = "pause_reading"
                  /\ \A k \in 2..(Len(added) - 1) : IsParse(added[k])
                  /\ ready' = Tail(ready) \o
                         (IF update_callback THEN Callbacks(caused) ELSE <<>>)
        /\ (Len(log') > Len(log) /\ IsNotify(LastEvent')) =>
              /\ lastOp'.op = "update_callback"
              /\ Len(log') = Len(log) + 1
              /\ LastEvent.ev \in {"resume_reading", "notify"}
              /\ Head(ready) = Handle("update_callback", LastEvent'.data)
              /\ ready' = Tail(ready)
              /\ UNCHANGED <<Core, timers>>
      ]_vars

C24_Witness ==
    /\ update_callback
    /\ Len(log) >= 6
    /\ IsNotify(log[Len(log)]) /\ IsNotify(log[Len(log) - 1])
    /\ log[Len(log) - 2].ev = "resume_reading"
    /\ IsParse(log[Len(log) - 3]) /\ IsParse(log[Len(log) - 4])
    /\ log[Len(log) - 5].ev = "pause_reading"
    /\ log[Len(log) - 1].data = log[Len(log) - 4].data
    /\ log[Len(log)].data = log[Len(log) - 3].data
    /\ log[Len(log)].data # log[Len(log) - 1].data

IsBracket(e) == e.ev \in {"pause_reading", "resume_reading"}

\* The calls of pause_reading and resume_reading among the first n events
Brackets(n) == SelectSeq(SubSeq(log, 1, n), IsBracket)

\* C25: Read bracketing. The calls of pause_reading and resume_reading made so
\* far alternate strictly, beginning with a pause and ending with a resume;
\* every message was parsed after a pause and before the resume that follows
\* it; reading is resumed in every state between two handlers; and a pass of
\* data_received, one that scheduled the power-on refresh included, passed
\* nothing to command() and wrote nothing to the transport.
C25_ReadBracketing ==
    LET all == Brackets(Len(log))
    IN  /\ \A i \in DOMAIN all :
              all[i].ev = IF i % 2 = 1 THEN "pause_reading" ELSE "resume_reading"
        /\ Len(all) % 2 = 0
        /\ \A k \in DOMAIN log :
              IsParse(log[k]) => Len(Brackets(k)) % 2 = 1
        /\ reading = "resumed"
        /\ lastOp.op = "data_received" =>
              /\ log # <<>>
              /\ LastEvent.ev = "resume_reading"
              /\ issued = <<>>
              /\ written = <<>>

\* A pass that detected the power-on edge has just returned
C25_Witness ==
    /\ lastOp.op = "data_received"
    /\ Len(log) >= 3
    /\ LastEvent.ev = "resume_reading"
    /\ LET e == log[Len(log) - 1]
       IN  /\ IsParse(e)
           /\ e.key = ssp_power /\ e.value = <<"1">> /\ e.oldvalue = <<"0">>
    /\ timers[PowerOnDelay] > 0
    /\ transport = "attached"
    /\ reading = "resumed"
    /\ written = <<>>

\* C26: Single writer. A step changes the table entry of a key only if it is
\* a pass of data_received that parsed a message under that key with a new
\* value; set_value, query, command, the refreshes, the property writes,
\* connection_made, connection_lost and the callbacks leave every entry as it
\* was, so a written value shows in the table only once the device reported it.
C26_SingleWriter ==
    [][ table' # table =>
            /\ lastOp'.op = "data_received"
            /\ \A key \in Keys :
                  table'[key] # table[key] =>
                      \E i \in (Len(log) + 1)..Len(log') :
                          /\ IsParse(log'[i])
                          /\ log'[i].key = key
                          /\ log'[i].newdata
      ]_vars

\* set_value('ssp.mute', '5') was written, echoed and parsed
C26_Witness ==
    /\ lastOp.op = "data_received"
    /\ getattr(table, ssp_mute) = <<"5">>
    /\ log # <<>>
    /\ \E i \in DOMAIN log :
          /\ IsParse(log[i])
          /\ log[i].data = ssp_mute \o <<".", "[", "5", "]">>
          /\ log[i].oldvalue = NoText
          /\ log[i].newdata

====
